---- MODULE Spec2Model ----
(***************************************************************************)
(* A model of src/cxx/src/lib.cc (namespace gstat): the resolution of the  *)
(* repository paths, the parsers of the porcelain status report, the       *)
(* probes of the auxiliary files and current_gitstatus, which composes     *)
(* them into the prompt line.                                              *)
(*                                                                         *)
(* Strings are sequences of one-character strings and positions are        *)
(* 0-based as in std::string.  A path is the sequence of its components:   *)
(* <<>> is "/", <<"a", ".git">> is "/a/.git".                               *)
(***************************************************************************)
EXTENDS Integers, Sequences, FiniteSets, TLC

VARIABLES
    pc,        \* position of the run
    start,     \* the process's working directory (input)
    entry,     \* entry[d]: what "<d>/.git" is, for every directory d (input)
    pointer,   \* the path a worktree pointer file names (input)
    files,     \* the auxiliary files of the metadata directory (input)
    lines,     \* the status report, lines[1] the header (input)
    cwd,       \* find_git_root: the directory being looked at
    git_root,  \* GPaths::git_root
    tree_d,    \* GPaths::tree_d
    info,      \* GBranch
    remote,    \* GRemote
    stats,     \* GStats
    stashes,   \* the stash count, as a string
    merge,     \* the merge flag, as a string
    rebase,    \* the rebase progress
    output,    \* the line current_gitstatus returns
    err        \* the exception that ended the run

vars == <<pc, start, entry, pointer, files, lines, cwd, git_root, tree_d,
          info, remote, stats, stashes, merge, rebase, output, err>>

----------------------------------------------------------------------------
(* Bounds of the model.                                                    *)

\* directories nested below the filesystem root
MaxDepth == 2
\* components of the path a worktree pointer file names
MaxPtrDepth == 3
\* status lines of a report
MaxLines == 2
\* digits of an ahead or behind count
MaxDigits == 2
\* characters of a stash log
MaxStashLen == 7
\* characters of the rebase directory's next and last files
MaxTokLen == 2

----------------------------------------------------------------------------
(* std::string                                                             *)

Min(S) == CHOOSE x \in S : \A y \in S : x <= y
Max(S) == CHOOSE x \in S : \A y \in S : x >= y

npos == -1

\* s.substr(pos)
substr(s, pos) == IF pos >= Len(s) THEN <<>> ELSE SubSeq(s, pos + 1, Len(s))

\* s.substr(0, n)
prefix(s, n) == IF n >= Len(s) THEN s ELSE SubSeq(s, 1, n)

MatchAt(s, pat, pos) ==
    /\ pos + Len(pat) <= Len(s)
    /\ SubSeq(s, pos + 1, pos + Len(pat)) = pat

\* s.find(pat)
find(s, pat) ==
    LET hits == {p \in 0..(Len(s) - 1) : MatchAt(s, pat, p)}
    IN  IF hits = {} THEN npos ELSE Min(hits)

\* s.rfind(pat)
rfind(s, pat) ==
    LET hits == {p \in 0..(Len(s) - 1) : MatchAt(s, pat, p)}
    IN  IF hits = {} THEN npos ELSE Max(hits)

Digit == <<"0", "1", "2", "3", "4", "5", "6", "7", "8", "9">>

isdigit(c) == \E d \in 1..10 : Digit[d] = c

isspace(c) == c \in {" ", "\n", "\t"}

DigitValue(c) == (CHOOSE d \in 1..10 : Digit[d] = c) - 1

RECURSIVE to_string(_)
\* std::to_string of a non-negative integer
to_string(n) ==
    IF n < 10 THEN <<Digit[n + 1]>>
    ELSE Append(to_string(n \div 10), Digit[(n % 10) + 1])

\* operator>>(istream, string) on the text of a freshly opened file: leading
\* white space is skipped and the characters up to the next white space are
\* the token (no character at all leaves the string empty).
RECURSIVE SkipSpace(_)
SkipSpace(s) ==
    IF s # <<>> /\ isspace(Head(s)) THEN SkipSpace(Tail(s)) ELSE s

RECURSIVE TakeWord(_)
TakeWord(s) ==
    IF s = <<>> \/ isspace(Head(s)) THEN <<>>
    ELSE <<Head(s)>> \o TakeWord(Tail(s))

FirstToken(s) == TakeWord(SkipSpace(s))

----------------------------------------------------------------------------
(* Paths and the filesystem.  join, dirname, basename, file_exists and     *)
(* file_is_dir are declared in lib.h.                                      *)

Root == <<>>

join(dir, name) == Append(dir, name)

dirname(path) == IF path = Root THEN Root ELSE SubSeq(path, 1, Len(path) - 1)

basename(path) == IF path = Root THEN "/" ELSE path[Len(path)]

GitD == ".git"

RECURSIVE PathsUpTo(_, _)
PathsUpTo(names, n) ==
    IF n = 0 THEN {Root}
    ELSE LET shorter == PathsUpTo(names, n - 1)
         IN  shorter \cup {Append(p, c) : p \in shorter, c \in names}

\* the directories of the model's filesystem
Dirs == PathsUpTo({"a"}, MaxDepth)

\* the paths a worktree pointer file may name
PointerPaths == PathsUpTo({"a", GitD, "wt"}, MaxPtrDepth)

EntryKinds == {"none", "dir", "file", "locked"}

\* the .git entry of directory d: entry[d] for a directory of the model
EntryAt(path) ==
    IF basename(path) = GitD /\ dirname(path) \in DOMAIN entry
    THEN entry[dirname(path)] ELSE "none"

\* the auxiliary file a derived path names
Open(path) ==
    CASE basename(path) = "HEAD" -> files.head
      [] basename(path) = "stash" -> files.stash
      [] basename(path) = "MERGE_HEAD" -> files.merge
      [] basename(path) = "next" -> files.next
      [] basename(path) = "last" -> files.last
      [] OTHER -> [exists |-> FALSE, data |-> <<>>]

file_exists(path) ==
    IF basename(path) = GitD THEN EntryAt(path) # "none" ELSE Open(path).exists

file_is_dir(path) == EntryAt(path) = "dir"

\* std::ifstream(path).good() for the .git entry
CanOpen(path) == EntryAt(path) = "file"

----------------------------------------------------------------------------
(* The derived paths of GPaths                                             *)

head(tree) == join(tree, "HEAD")

merge_head(tree) == join(tree, "MERGE_HEAD")

rebase_apply(tree) == join(tree, "rebase-apply")

stash(root) == join(join(join(root, "logs"), "refs"), "stash")

----------------------------------------------------------------------------
(* parse_branch                                                            *)

Dots == <<".", ".", ".">>
OpenBracket == <<" ", "[">>
NoBranch == <<"(", "n", "o", " ", "b", "r", "a", "n", "c", "h", ")">>
InitialCommit ==
    <<"I", "n", "i", "t", "i", "a", "l", " ", "c", "o", "m", "m", "i", "t">>
NoCommitsYet ==
    <<"N", "o", " ", "c", "o", "m", "m", "i", "t", "s", " ", "y", "e", "t">>

\* the tracking bracket is cut off the header content
strip_bracket(temp) ==
    LET found == rfind(temp, OpenBracket)
    IN  IF found # npos THEN prefix(temp, found) ELSE temp

\* "branch...upstream"
branch_tracking(temp) ==
    LET found == find(temp, Dots)
    IN  [branch |-> prefix(temp, found), upstream |-> substr(temp, found + 3),
         local |-> 0, err |-> "none"]

\* branch_detached without its assignment to local
branch_detached_local_only(head_file) ==
    IF Open(head_file).exists
    THEN [branch |-> FirstToken(Open(head_file).data), upstream |-> <<>>,
          local |-> 1, err |-> "none"]
    ELSE [branch |-> <<>>, upstream |-> <<>>, local |-> 1, err |-> "IOError"]

\* "(no branch)": the branch is the first token of the head file
branch_detached(head_file) ==
    IF Open(head_file).exists
    THEN [branch |-> FirstToken(Open(head_file).data), upstream |-> <<>>,
          local |-> 0, err |-> "none"]
    ELSE [branch |-> <<>>, upstream |-> <<>>, local |-> 0, err |-> "IOError"]

\* "Initial commit on branch", "No commits yet on branch"
branch_initial(temp) ==
    [branch |-> substr(temp, rfind(temp, <<" ">>) + 1), upstream |-> <<>>,
     local |-> 1, err |-> "none"]

\* anything else is the branch's name
branch_plain(temp) ==
    [branch |-> temp, upstream |-> <<>>, local |-> 1, err |-> "none"]

parse_branch(branch_line, head_file) ==
    LET temp == strip_bracket(substr(branch_line, 3))
    IN  IF find(temp, Dots) # npos THEN branch_tracking(temp)
        ELSE IF find(temp, NoBranch) # npos THEN branch_detached(head_file)
        ELSE IF find(temp, InitialCommit) # npos \/ find(temp, NoCommitsYet) # npos
             THEN branch_initial(temp)
        ELSE branch_plain(temp)

----------------------------------------------------------------------------
(* parse_remote                                                            *)

Ahead == <<"a", "h", "e", "a", "d">>
Behind == <<"b", "e", "h", "i", "n", "d">>

IntMax == 2147483647

RECURSIVE DigitRun(_)
\* the digits a string starts with
DigitRun(s) ==
    IF s # <<>> /\ isdigit(Head(s)) THEN <<Head(s)>> \o DigitRun(Tail(s))
    ELSE <<>>

RECURSIVE DecimalValue(_)
DecimalValue(ds) ==
    IF ds = <<>> THEN 0
    ELSE 10 * DecimalValue(SubSeq(ds, 1, Len(ds) - 1)) + DigitValue(ds[Len(ds)])

\* a stoi that reads no digits as 0
stoi_lenient(str) == [ok |-> TRUE, value |-> DecimalValue(DigitRun(SkipSpace(str)))]

\* std::stoi: white space, a sign, then digits; it throws when there is no
\* digit (invalid_argument) or the value is no int (out_of_range)
stoi(str) ==
    LET s == SkipSpace(str)
        signed == s # <<>> /\ Head(s) \in {"-", "+"}
        ds == DigitRun(IF signed THEN Tail(s) ELSE s)
        v == IF signed /\ Head(s) = "-" THEN 0 - DecimalValue(ds)
             ELSE DecimalValue(ds)
    IN  IF ds = <<>> \/ v > IntMax \/ v < 0 - IntMax - 1
        THEN [ok |-> FALSE, value |-> 0]
        ELSE [ok |-> TRUE, value |-> v]

\* a line that holds " [" and ends in "]" has a tracking bracket
has_tracking(branch_line) ==
    /\ find(branch_line, OpenBracket) # npos
    /\ branch_line[Len(branch_line)] = "]"

\* only the remote tracking section remains: the text after the first " ["
tracking_text(branch_line) ==
    substr(branch_line, find(branch_line, OpenBracket) + 2)

\* the ahead loop left after its first turn
ahead_part_one_char(temp) == IF temp = <<>> THEN <<>> ELSE <<Head(temp)>>

\* the part the ahead loop collects: the first character left after the
\* keyword and the digits that follow it
ahead_part(temp) ==
    IF temp = <<>> THEN <<>> ELSE <<Head(temp)>> \o DigitRun(Tail(temp))

\* the ahead block: [value, rest of the text, ok]
parse_ahead(temp) ==
    IF temp # <<>> /\ find(temp, Ahead) # npos
    THEN LET cut == substr(temp, 6)
             part == ahead_part(cut)
         IN  [value |-> stoi(part).value, rest |-> substr(cut, Len(part)),
              ok |-> stoi(part).ok]
    ELSE [value |-> 0, rest |-> temp, ok |-> TRUE]

skip_comma(temp) ==
    IF temp # <<>> /\ Head(temp) = "," THEN substr(temp, 1) ELSE temp

\* the behind block: [value, ok]
parse_behind(temp) ==
    IF temp # <<>> /\ find(temp, Behind) # npos
    THEN stoi(substr(temp, 7))
    ELSE [ok |-> TRUE, value |-> 0]

parse_remote(branch_line) ==
    IF ~has_tracking(branch_line)
    THEN [ahead |-> 0, behind |-> 0, err |-> "none"]
    ELSE LET a == parse_ahead(tracking_text(branch_line))
             b == parse_behind(skip_comma(a.rest))
         IN  IF ~a.ok THEN [ahead |-> 0, behind |-> 0, err |-> "ParseError"]
             ELSE IF ~b.ok
                  THEN [ahead |-> a.value, behind |-> 0, err |-> "ParseError"]
             ELSE [ahead |-> a.value, behind |-> b.value, err |-> "none"]

----------------------------------------------------------------------------
(* parse_stats.  hash_two_places and the HASH_CASE_ constants are those of *)
(* src/const.h: the hash tells the pairs of status characters apart.       *)

Ord(c) ==
    CASE c = " " -> 32
      [] c = "#" -> 35
      [] c = "?" -> 63
      [] c = "A" -> 65
      [] c = "C" -> 67
      [] c = "D" -> 68
      [] c = "M" -> 77
      [] c = "R" -> 82
      [] c = "U" -> 85
      [] OTHER -> 0

hash_two_places(word) == Ord(word[1]) * 256 + Ord(word[2])

\* the case labels of the first switch
HashConflictCases ==
    {hash_two_places(w) :
        w \in {<<"A", "A">>, <<"A", "U">>, <<"D", "D">>, <<"D", "U">>,
               <<"U", "A">>, <<"U", "D">>, <<"U", "U">>}}

\* the case labels of the second and of the third switch
StagedCases == {"A", "C", "D", "M", "R"}
ChangedCases == {"C", "D", "M", "R"}

\* the two switches a line reaches that is neither untracked nor a conflict
count_staged_changed(st, line) ==
    [st EXCEPT !.staged = IF line[1] \in StagedCases THEN @ + 1 ELSE @,
               !.changed = IF line[2] \in ChangedCases THEN @ + 1 ELSE @]

\* the conflict switch without its continue
count_conflict_fallthrough(st, line) ==
    IF hash_two_places(line) \in HashConflictCases
    THEN count_staged_changed([st EXCEPT !.conflicts = @ + 1], line)
    ELSE count_staged_changed(st, line)

\* the conflict switch and what follows it
count_conflict(st, line) ==
    IF hash_two_places(line) \in HashConflictCases
    THEN [st EXCEPT !.conflicts = @ + 1]
    ELSE count_staged_changed(st, line)

\* the untracked test without its continue
parse_stats_line_fallthrough(st, line) ==
    IF line[1] = "?" THEN count_conflict([st EXCEPT !.untracked = @ + 1], line)
    ELSE count_conflict(st, line)

\* the body of the loop over the lines
parse_stats_line(st, line) ==
    IF line[1] = "?" THEN [st EXCEPT !.untracked = @ + 1]
    ELSE count_conflict(st, line)

RECURSIVE parse_stats_from(_, _, _)
parse_stats_from(st, ls, i) ==
    IF i > Len(ls) THEN st
    ELSE parse_stats_from(parse_stats_line(st, ls[i]), ls, i + 1)

parse_stats(ls) ==
    parse_stats_from([staged |-> 0, conflicts |-> 0, changed |-> 0,
                      untracked |-> 0], ls, 1)

----------------------------------------------------------------------------
(* stash_count and rebase_progress                                         *)

\* std::getline on what is left of the file: the line read, what is left
\* after it, and whether the stream is still good()
getline(text) ==
    LET nl == find(text, <<"\n">>)
    IN  IF nl = npos THEN [buffer |-> text, rest |-> <<>>, good |-> FALSE]
        ELSE [buffer |-> prefix(text, nl), rest |-> substr(text, nl + 1),
              good |-> TRUE]

\* a loop that counts every line read
counts_line_always(buffer) == TRUE

\* whether the loop counts the line read
counts_line(buffer) == buffer # <<>>

RECURSIVE stash_loop(_, _)
\* the while (fin.good()) loop
stash_loop(text, count) ==
    LET got == getline(text)
        n == IF counts_line(got.buffer) THEN count + 1 ELSE count
    IN  IF got.good THEN stash_loop(got.rest, n) ELSE n

stash_count(stash_file) ==
    to_string(IF Open(stash_file).exists
              THEN stash_loop(Open(stash_file).data, 0) ELSE 0)

\* next and last taken for each other
progress_text_swapped(next, last) ==
    FirstToken(last.data) \o <<"/">> \o FirstToken(next.data)

\* the result when next and last are both open
progress_text(next, last) ==
    FirstToken(next.data) \o <<"/">> \o FirstToken(last.data)

\* a rebase_progress content with either file
rebase_progress_either(rebase_d) ==
    LET next == Open(join(rebase_d, "next"))
        last == Open(join(rebase_d, "last"))
    IN  IF next.exists \/ last.exists
        THEN FirstToken(next.data) \o <<"/">> \o FirstToken(last.data)
        ELSE <<"0">>

rebase_progress(rebase_d) ==
    LET next == Open(join(rebase_d, "next"))
        last == Open(join(rebase_d, "last"))
    IN  IF next.exists /\ last.exists THEN progress_text(next, last)
        ELSE <<"0">>

\* the merge flag of current_gitstatus
merge_flag(tree) == to_string(IF file_exists(merge_head(tree)) THEN 1 ELSE 0)

----------------------------------------------------------------------------
(* The line current_gitstatus builds                                       *)

\* operator<< of GRemote
remote_text(r) == to_string(r.ahead) \o <<" ">> \o to_string(r.behind) \o <<" ">>

\* operator<< of GStats
stats_text(s) ==
    to_string(s.staged) \o <<" ">> \o to_string(s.conflicts) \o <<" ">>
    \o to_string(s.changed) \o <<" ">> \o to_string(s.untracked) \o <<" ">>

status_line(i, r, s, st, m, rb) ==
    i.branch \o <<" ">> \o remote_text(r) \o stats_text(s) \o st \o <<" ">>
    \o to_string(i.local) \o <<" ">> \o i.upstream \o <<" ">>
    \o m \o <<" ">> \o rb

----------------------------------------------------------------------------
(* Initial values of the run's own state.                                  *)

NoFile == [exists |-> FALSE, data |-> <<>>]
File(text) == [exists |-> TRUE, data |-> text]

NoFiles == [head |-> NoFile, stash |-> NoFile, merge |-> NoFile,
            next |-> NoFile, last |-> NoFile]

GBranch0 == [branch |-> <<>>, upstream |-> <<>>, local |-> 0, err |-> "none"]
GRemote0 == [ahead |-> 0, behind |-> 0, err |-> "none"]
GStats0 == [staged |-> 0, conflicts |-> 0, changed |-> 0, untracked |-> 0]

Fresh ==
    /\ cwd = start
    /\ git_root = Root
    /\ tree_d = Root
    /\ info = GBranch0
    /\ remote = GRemote0
    /\ stats = GStats0
    /\ stashes = <<>>
    /\ merge = <<>>
    /\ rebase = <<>>
    /\ output = <<>>
    /\ err = "none"

----------------------------------------------------------------------------
(* find_git_root and GPaths::set_tree_d.  current_gitstatus builds its     *)
(* GPaths from find_git_root's result; the constructor (lib.h) keeps it as *)
(* git_root and calls set_tree_d.  A pointer file holds "gitdir: <path>"   *)
(* and <path> is absolute.                                                 *)

\* find_git_root, one turn of the loop that finds the entry
FindGitRootFound ==
    /\ pc = "find_git_root"
    /\ cwd # Root
    /\ file_exists(join(cwd, GitD))
    /\ git_root' = join(cwd, GitD)
    /\ pc' = "set_tree_d"
    /\ UNCHANGED <<start, entry, pointer, files, lines, cwd, tree_d, info,
                   remote, stats, stashes, merge, rebase, output, err>>

\* find_git_root, one turn of the loop that moves to the parent
FindGitRootUp ==
    /\ pc = "find_git_root"
    /\ cwd # Root
    /\ ~file_exists(join(cwd, GitD))
    /\ cwd' = dirname(cwd)
    /\ UNCHANGED <<pc, start, entry, pointer, files, lines, git_root, tree_d,
                   info, remote, stats, stashes, merge, rebase, output, err>>

\* find_git_root, the loop left at "/": throw
FindGitRootThrow ==
    /\ pc = "find_git_root"
    /\ cwd = Root
    /\ pc' = "failed"
    /\ err' = "NotFound"
    /\ UNCHANGED <<start, entry, pointer, files, lines, cwd, git_root, tree_d,
                   info, remote, stats, stashes, merge, rebase, output>>

\* set_tree_d: the entry is a directory
SetTreeDIsDir ==
    /\ pc = "set_tree_d"
    /\ file_is_dir(git_root)
    /\ tree_d' = git_root
    /\ pc' = "resolved"
    /\ UNCHANGED <<start, entry, pointer, files, lines, cwd, git_root, info,
                   remote, stats, stashes, merge, rebase, output, err>>

\* set_tree_d: the entry is a file that cannot be opened: throw
SetTreeDThrow ==
    /\ pc = "set_tree_d"
    /\ ~file_is_dir(git_root)
    /\ ~CanOpen(git_root)
    /\ tree_d' = git_root
    /\ pc' = "failed"
    /\ err' = "IOError"
    /\ UNCHANGED <<start, entry, pointer, files, lines, cwd, git_root, info,
                   remote, stats, stashes, merge, rebase, output>>

\* set_tree_d: the entry is a pointer file; its second token is the tree
\* directory and the walk to the root starts there
SetTreeDRead ==
    /\ pc = "set_tree_d"
    /\ ~file_is_dir(git_root)
    /\ CanOpen(git_root)
    /\ tree_d' = pointer
    /\ git_root' = pointer
    /\ pc' = "walk_test"
    /\ UNCHANGED <<start, entry, pointer, files, lines, cwd, info, remote,
                   stats, stashes, merge, rebase, output, err>>

\* the condition of set_tree_d's while loop
WalkContinues(path) == basename(path) # GitD

\* set_tree_d: the while loop's test
WalkTest ==
    /\ pc = "walk_test"
    /\ pc' = IF WalkContinues(git_root) THEN "walk_body" ELSE "resolved"
    /\ UNCHANGED <<start, entry, pointer, files, lines, cwd, git_root, tree_d,
                   info, remote, stats, stashes, merge, rebase, output, err>>

\* set_tree_d: the while loop's body
WalkBody ==
    /\ pc = "walk_body"
    /\ git_root' = dirname(git_root)
    /\ pc' = "walk_test"
    /\ UNCHANGED <<start, entry, pointer, files, lines, cwd, tree_d, info,
                   remote, stats, stashes, merge, rebase, output, err>>

Resolve ==
    \/ FindGitRootFound
    \/ FindGitRootUp
    \/ FindGitRootThrow
    \/ SetTreeDIsDir
    \/ SetTreeDThrow
    \/ SetTreeDRead
    \/ WalkTest
    \/ WalkBody

\* Path resolution alone, from every working directory and layout
InitPaths ==
    /\ pc = "find_git_root"
    /\ start \in Dirs
    /\ entry \in [Dirs -> EntryKinds]
    /\ pointer \in PointerPaths
    /\ files = NoFiles
    /\ lines = <<>>
    /\ Fresh

NextPaths == Resolve

SpecPaths == InitPaths /\ [][NextPaths]_vars

\* the process is never descheduled for good: some step is always taken
FairPaths == SpecPaths /\ WF_vars(NextPaths)

----------------------------------------------------------------------------
(* current_gitstatus after the paths are resolved                          *)

ParseBranch ==
    /\ pc = "resolved"
    /\ info' = parse_branch(lines[1], head(tree_d))
    /\ pc' = IF info'.err = "none" THEN "parse_remote" ELSE "failed"
    /\ err' = info'.err
    /\ UNCHANGED <<start, entry, pointer, files, lines, cwd, git_root, tree_d,
                   remote, stats, stashes, merge, rebase, output>>

ParseRemote ==
    /\ pc = "parse_remote"
    /\ remote' = parse_remote(lines[1])
    /\ pc' = IF remote'.err = "none" THEN "parse_stats" ELSE "failed"
    /\ err' = remote'.err
    /\ UNCHANGED <<start, entry, pointer, files, lines, cwd, git_root, tree_d,
                   info, stats, stashes, merge, rebase, output>>

ParseStats ==
    /\ pc = "parse_stats"
    /\ stats' = parse_stats(lines)
    /\ pc' = "stash_count"
    /\ UNCHANGED <<start, entry, pointer, files, lines, cwd, git_root, tree_d,
                   info, remote, stashes, merge, rebase, output, err>>

StashCount ==
    /\ pc = "stash_count"
    /\ stashes' = stash_count(stash(git_root))
    /\ pc' = "merge"
    /\ UNCHANGED <<start, entry, pointer, files, lines, cwd, git_root, tree_d,
                   info, remote, stats, merge, rebase, output, err>>

MergeFlag ==
    /\ pc = "merge"
    /\ merge' = merge_flag(tree_d)
    /\ pc' = "rebase"
    /\ UNCHANGED <<start, entry, pointer, files, lines, cwd, git_root, tree_d,
                   info, remote, stats, stashes, rebase, output, err>>

RebaseProgress ==
    /\ pc = "rebase"
    /\ rebase' = rebase_progress(rebase_apply(tree_d))
    /\ pc' = "format"
    /\ UNCHANGED <<start, entry, pointer, files, lines, cwd, git_root, tree_d,
                   info, remote, stats, stashes, merge, output, err>>

Emit ==
    /\ pc = "format"
    /\ output' = status_line(info, remote, stats, stashes, merge, rebase)
    /\ pc' = "done"
    /\ UNCHANGED <<start, entry, pointer, files, lines, cwd, git_root, tree_d,
                   info, remote, stats, stashes, merge, rebase, err>>

----------------------------------------------------------------------------
(* The status reports and filesystems the runs start from                  *)

HeaderPrefix == <<"#", "#", " ">>
Gone == <<"g", "o", "n", "e">>
On == <<" ", "o", "n", " ">>

BranchNames == {<<"m">>, <<"v", ".", "1">>}
UpstreamNames == {<<"o", "/", "m">>, <<"u">>}

\* counts of one to MaxDigits digits, and 0
Counts ==
    {0} \cup UNION {{10^(k - 1), 10^k - 1, 2 * 10^(k - 1) + 3 * (10^(k - 1) \div 10)} :
                       k \in 1..MaxDigits}

Bracket(text) == <<" ", "[">> \o text \o <<"]">>

AheadText(n) == Ahead \o <<" ">> \o to_string(n)
BehindText(m) == Behind \o <<" ">> \o to_string(m)
BothText(n, m) == AheadText(n) \o <<",", " ">> \o BehindText(m)

Tracking(b, u) == HeaderPrefix \o b \o Dots \o u

AheadHeader(b, u, n) == Tracking(b, u) \o Bracket(AheadText(n))
BehindHeader(b, u, m) == Tracking(b, u) \o Bracket(BehindText(m))
BothHeader(b, u, n, m) == Tracking(b, u) \o Bracket(BothText(n, m))

DetachedHeader == HeaderPrefix \o <<"H", "E", "A", "D", " ">> \o NoBranch

Main == <<"m">>
OriginMain == <<"o", "/", "m">>

\* "## m", "## m...o/m", "## m...o/m [gone]"
PlainHeader == HeaderPrefix \o Main
TrackedHeader == Tracking(Main, OriginMain)
GoneHeader == Tracking(Main, OriginMain) \o Bracket(Gone)

\* "## No commits yet on m", "## Initial commit on m"
UnbornHeader == HeaderPrefix \o NoCommitsYet \o On \o Main
InitialHeader == HeaderPrefix \o InitialCommit \o On \o Main

\* "## No commits yet on m...o/m [gone]": git's header in a clone of an
\* empty repository
UnbornTrackingHeader ==
    HeaderPrefix \o NoCommitsYet \o On \o Main \o Dots \o OriginMain
    \o Bracket(Gone)

\* headers whose bracket names no count: ahead and behind stay 0
QuietHeaders ==
    {PlainHeader, TrackedHeader, GoneHeader, DetachedHeader, UnbornHeader,
     InitialHeader, UnbornTrackingHeader}

\* "[ahead]", "[ahead ]", "[behind]", "[ahead 2, behind]" and
\* "[ahead , behind 13]": a keyword and no digit after it
MalformedHeaders ==
    {Tracking(Main, OriginMain) \o Bracket(Ahead),
     Tracking(Main, OriginMain) \o Bracket(Ahead \o <<" ">>),
     Tracking(Main, OriginMain) \o Bracket(Behind),
     Tracking(Main, OriginMain) \o Bracket(AheadText(2) \o <<",", " ">> \o Behind),
     Tracking(Main, OriginMain)
         \o Bracket(Ahead \o <<" ", ",", " ">> \o BehindText(13))}

CountedHeaders ==
    {AheadHeader(Main, OriginMain, 2), BehindHeader(Main, OriginMain, 13),
     BothHeader(Main, OriginMain, 2, 13)}

RunHeaders == QuietHeaders \cup MalformedHeaders \cup CountedHeaders

\* status lines are their two status characters (the path is never read)
StatusChars == {"A", "C", "D", "M", "R", "U", "?", " "}
StatusLines == {<<x, y>> : x \in StatusChars, y \in StatusChars}

RunReports ==
    {<<>>, <<<<"M", "M">>>>, <<<<"?", "?">>, <<"U", "U">>>>,
     <<<<"M", " ">>, <<" ", "M">>, <<"?", "?">>>>}

Dir1 == <<"a">>
Dir2 == <<"a", "a">>

Layout(s, e1, e2, p) ==
    [start |-> s, pointer |-> p,
     entry |-> [d \in Dirs |-> IF d = Dir1 THEN e1
                               ELSE IF d = Dir2 THEN e2 ELSE "none"]]

\* no repository; a repository; a worktree of it; a pointer file that
\* cannot be opened; a pointer file that names a path outside any .git
RunLayouts ==
    {Layout(Dir2, "none", "none", Root),
     Layout(Dir2, "dir", "none", Root),
     Layout(Dir2, "dir", "file", <<"a", GitD, "wt">>),
     Layout(Dir1, "locked", "none", Root),
     Layout(Dir1, "file", "none", <<"a", "wt">>)}

RunFiles ==
    [head : {NoFile, File(<<"a", "1", "\n">>)},
     stash : {NoFile, File(<<"x", "\n">>)},
     merge : {NoFile, File(<<>>)},
     next : {NoFile, File(<<"2", "\n">>)},
     last : {NoFile, File(<<"5", "\n">>)}]

Init ==
    /\ pc = "find_git_root"
    /\ \E l \in RunLayouts :
          /\ start = l.start
          /\ entry = l.entry
          /\ pointer = l.pointer
    /\ files \in RunFiles
    /\ \E h \in RunHeaders, r \in RunReports : lines = <<h>> \o r
    /\ Fresh

Next ==
    \/ Resolve
    \/ ParseBranch
    \/ ParseRemote
    \/ ParseStats
    \/ StashCount
    \/ MergeFlag
    \/ RebaseProgress
    \/ Emit

Spec == Init /\ [][Next]_vars

----------------------------------------------------------------------------
(* The parsers and the probes alone, each from every input of its bounds   *)

\* parse_branch and parse_remote on the headers of a tracked branch
TrackingHeaders ==
    UNION {{AheadHeader(b, u, n) : n \in Counts}
           \cup {BehindHeader(b, u, n) : n \in Counts}
           \cup {BothHeader(b, u, n, m) : n \in Counts, m \in Counts} :
               b \in BranchNames, u \in UpstreamNames}

InitHeader ==
    /\ pc = "resolved"
    /\ start = Root
    /\ entry = [d \in Dirs |-> "none"]
    /\ pointer = Root
    /\ files = NoFiles
    /\ \E h \in TrackingHeaders : lines = <<h>>
    /\ Fresh

NextHeader == ParseBranch \/ ParseRemote

SpecHeader == InitHeader /\ [][NextHeader]_vars

\* parse_stats on every report of up to MaxLines status lines
Reports == UNION {[1..n -> StatusLines] : n \in 0..MaxLines}

InitStats ==
    /\ pc = "parse_stats"
    /\ start = Root
    /\ entry = [d \in Dirs |-> "none"]
    /\ pointer = Root
    /\ files = NoFiles
    /\ \E r \in Reports : lines = <<PlainHeader>> \o r
    /\ Fresh

NextStats == ParseStats

SpecStats == InitStats /\ [][NextStats]_vars

RECURSIVE TextsUpTo(_, _)
\* the strings of up to n characters of an alphabet
TextsUpTo(chars, n) ==
    IF n = 0 THEN {<<>>}
    ELSE LET shorter == TextsUpTo(chars, n - 1)
         IN  shorter \cup {Append(t, c) : t \in shorter, c \in chars}

\* stash_count on every stash log of up to MaxStashLen characters
StashLogs == {NoFile} \cup {File(t) : t \in TextsUpTo({"x", " ", "\n"}, MaxStashLen)}

InitStash ==
    /\ pc = "stash_count"
    /\ start = Root
    /\ entry = [d \in Dirs |-> "none"]
    /\ pointer = Root
    /\ \E f \in StashLogs : files = [NoFiles EXCEPT !.stash = f]
    /\ lines = <<>>
    /\ Fresh

NextStash == StashCount

SpecStash == InitStash /\ [][NextStash]_vars

\* rebase_progress on every next and last file of up to MaxTokLen characters
CountFiles ==
    {NoFile} \cup {File(t) : t \in TextsUpTo({"0", "2", "5", " "}, MaxTokLen)}

InitRebase ==
    /\ pc = "rebase"
    /\ start = Root
    /\ entry = [d \in Dirs |-> "none"]
    /\ pointer = Root
    /\ \E n \in CountFiles, l \in CountFiles :
          files = [NoFiles EXCEPT !.next = n, !.last = l]
    /\ lines = <<>>
    /\ Fresh

NextRebase == RebaseProgress

SpecRebase == InitRebase /\ [][NextRebase]_vars

----------------------------------------------------------------------------
(* What the properties below are stated with                               *)

RECURSIVE Fields(_)
\* the fields of a line: the texts between its spaces
Fields(s) ==
    LET sp == find(s, <<" ">>)
    IN  IF sp = npos THEN <<s>>
        ELSE <<prefix(s, sp)>> \o Fields(substr(s, sp + 1))

Flags == {<<"0">>, <<"1">>}

\* the first white-space delimited token of a text, by positions
TokenOf(text) ==
    LET black == {i \in 1..Len(text) : ~isspace(text[i])}
    IN  IF black = {} THEN <<>>
        ELSE LET b == Min(black)
                 e == Max({j \in b..Len(text) : \A k \in b..j : k \in black})
             IN  SubSeq(text, b, e)

\* a decimal numeral of a positive integer
IsPositive(t) ==
    /\ t # <<>>
    /\ \A i \in 1..Len(t) : isdigit(t[i])
    /\ \E i \in 1..Len(t) : t[i] # "0"

\* "current/total", both positive integers
IsProgressPair(t) ==
    \E k \in 1..Len(t) :
        /\ t[k] = "/"
        /\ IsPositive(SubSeq(t, 1, k - 1))
        /\ IsPositive(SubSeq(t, k + 1, Len(t)))

\* the directories find_git_root looks at: start and its ancestors below "/"
Looked == {SubSeq(start, 1, k) : k \in 1..Len(start)}

\* the .git entry the upward walk finds, "none" when there is none
FoundKind ==
    LET with == {d \in Looked : entry[d] # "none"}
    IN  IF with = {} THEN "none"
        ELSE entry[CHOOSE d \in with : \A o \in with : Len(o) <= Len(d)]

NotFoundInput == FoundKind = "none"

IOErrorInput ==
    \/ FoundKind = "locked"
    \/ lines[1] = DetachedHeader /\ ~files.head.exists

ParseErrorInput == lines[1] \in MalformedHeaders

FatalInput == NotFoundInput \/ IOErrorInput \/ ParseErrorInput

ConflictPairs ==
    {<<"A", "A">>, <<"A", "U">>, <<"D", "D">>, <<"D", "U">>, <<"U", "A">>,
     <<"U", "D">>, <<"U", "U">>}

\* the reference classifier, on the status lines r
RefUntracked(r) == Cardinality({i \in 1..Len(r) : r[i][1] = "?"})

RefConflicts(r) ==
    Cardinality({i \in 1..Len(r) : r[i][1] # "?" /\ r[i] \in ConflictPairs})

RefStaged(r) ==
    Cardinality({i \in 1..Len(r) :
        /\ r[i][1] # "?"
        /\ r[i] \notin ConflictPairs
        /\ r[i][1] \in {"A", "C", "D", "M", "R"}})

RefChanged(r) ==
    Cardinality({i \in 1..Len(r) :
        /\ r[i][1] # "?"
        /\ r[i] \notin ConflictPairs
        /\ r[i][2] \in {"C", "D", "M", "R"}})

\* the lines of a text that hold a character that is no white space: the
\* positions of the first such character of a line
TrimmedLines(text) ==
    Cardinality({i \in 1..Len(text) :
        /\ ~isspace(text[i])
        /\ \A j \in 1..(i - 1) :
              ~isspace(text[j]) => \E k \in (j + 1)..(i - 1) : text[k] = "\n"})

\* the lines of a text that hold a character: the positions where one starts
NonEmptyLines(text) ==
    Cardinality({i \in 1..Len(text) :
        text[i] # "\n" /\ (i = 1 \/ text[i - 1] = "\n")})

----------------------------------------------------------------------------
(* The claims                                                              *)

\* C1: the line current_gitstatus returns has exactly 12 fields separated by
\* single spaces: branch, ahead, behind, staged, conflicts, changed,
\* untracked, stash count, local flag, upstream, merge flag, rebase progress;
\* the two flags are 0 or 1.
C1_TwelveFields ==
    pc = "done" =>
        LET f == Fields(output)
        IN  /\ Len(f) = 12
            /\ f[1] = info.branch
            /\ f[2] = to_string(remote.ahead)
            /\ f[3] = to_string(remote.behind)
            /\ f[4] = to_string(stats.staged)
            /\ f[5] = to_string(stats.conflicts)
            /\ f[6] = to_string(stats.changed)
            /\ f[7] = to_string(stats.untracked)
            /\ f[8] = stashes
            /\ f[9] \in Flags
            /\ f[10] = info.upstream
            /\ f[11] \in Flags
            /\ f[12] = rebase

\* C2: a header "## B...U [ahead N]", "## B...U [behind M]" or
\* "## B...U [ahead N, behind M]" parses to branch B, upstream U, local flag
\* 0, ahead N and behind M, a count the bracket does not name being 0.
C2_TrackingHeaderParsed ==
    /\ pc # "failed"
    /\ pc = "parse_stats" =>
          \A b \in BranchNames, u \in UpstreamNames, n \in Counts, m \in Counts :
              /\ lines[1] = AheadHeader(b, u, n) =>
                    /\ info = [branch |-> b, upstream |-> u, local |-> 0,
                               err |-> "none"]
                    /\ remote.ahead = n /\ remote.behind = 0
              /\ lines[1] = BehindHeader(b, u, m) =>
                    /\ info = [branch |-> b, upstream |-> u, local |-> 0,
                               err |-> "none"]
                    /\ remote.ahead = 0 /\ remote.behind = m
              /\ lines[1] = BothHeader(b, u, n, m) =>
                    /\ info = [branch |-> b, upstream |-> u, local |-> 0,
                               err |-> "none"]
                    /\ remote.ahead = n /\ remote.behind = m

\* C2 witness: "## m...o/m [ahead 2, behind 23]" parsed to 2 and 23
C2_Witness ==
    /\ pc = "parse_stats"
    /\ lines[1] = BothHeader(Main, OriginMain, 2, 23)
    /\ info.branch = Main /\ info.upstream = OriginMain
    /\ remote.ahead = 2 /\ remote.behind = 23

\* C3 as claimed: a detached-head header with a readable head file gives the
\* head file's first token as branch, local flag 1 (isLocalOnly true), no
\* upstream, ahead 0 and behind 0.
C3_DetachedLocalOnly ==
    (pc = "done" /\ lines[1] = DetachedHeader /\ files.head.exists) =>
        /\ info.branch = TokenOf(files.head.data)
        /\ info.local = 1
        /\ info.upstream = <<>>
        /\ remote.ahead = 0 /\ remote.behind = 0

\* C3 amended: a detached-head header with a readable head file gives the
\* head file's first token as branch, local flag 0 (isLocalOnly false), no
\* upstream, ahead 0 and behind 0.
C3_DetachedNotLocal ==
    (pc = "done" /\ lines[1] = DetachedHeader /\ files.head.exists) =>
        /\ info.branch = TokenOf(files.head.data)
        /\ info.local = 0
        /\ Fields(output)[9] = <<"0">>
        /\ info.upstream = <<>>
        /\ remote.ahead = 0 /\ remote.behind = 0

\* C3 witness: a finished run on "## HEAD (no branch)" whose branch is the
\* hash of the head file
C3_Witness ==
    /\ pc = "done"
    /\ lines[1] = DetachedHeader
    /\ files.head.exists
    /\ info.branch = <<"a", "1">>

\* C4: the four counts of parse_stats on the whole report are the reference
\* classifier's counts of the status lines; the header changes no counter.
C4_StatsMatchReference ==
    pc = "stash_count" =>
        LET r == Tail(lines)
        IN  stats = [staged |-> RefStaged(r), conflicts |-> RefConflicts(r),
                     changed |-> RefChanged(r), untracked |-> RefUntracked(r)]

\* C4 witness: a report of a conflict line and a line staged and changed
C4_Witness ==
    /\ pc = "stash_count"
    /\ Len(lines) = 3
    /\ lines[2] \in ConflictPairs
    /\ stats = [staged |-> 1, conflicts |-> 1, changed |-> 1, untracked |-> 0]

\* C5 as claimed: every status line is counted into exactly one bucket, so
\* staged + conflicts + changed + untracked is the number of status lines.
C5_BucketsSumToLines ==
    pc = "stash_count" =>
        stats.staged + stats.conflicts + stats.changed + stats.untracked
            = Len(lines) - 1

\* C5 amended: every status line is untracked, a conflict, or neither; only
\* a line that is neither adds to staged and to changed, to each at most 1
\* (to both, to one or to none).  So untracked + conflicts + staged and
\* untracked + conflicts + changed are each at most the number of status
\* lines.
C5_BucketsExclusive ==
    pc = "stash_count" =>
        /\ stats.untracked + stats.conflicts + stats.staged <= Len(lines) - 1
        /\ stats.untracked + stats.conflicts + stats.changed <= Len(lines) - 1
        /\ stats.untracked = RefUntracked(Tail(lines))

\* C5 witness: one status line counted as staged and as changed
C5_Witness ==
    /\ pc = "stash_count"
    /\ Len(lines) = 2
    /\ stats.staged = 1 /\ stats.changed = 1

\* C6: a missing stash log gives stash count 0, a missing merge marker merge
\* flag 0, a missing next or last file rebase progress "0", a header without
\* a count in its bracket ahead 0 and behind 0; no run fails but on one of
\* the fatal inputs, and a finished run has its line.
C6_AbsenceDefaults ==
    /\ pc = "failed" => FatalInput
    /\ pc = "done" =>
          /\ ~files.stash.exists => stashes = <<"0">>
          /\ ~files.merge.exists => merge = <<"0">>
          /\ (~files.next.exists \/ ~files.last.exists) => rebase = <<"0">>
          /\ lines[1] \in QuietHeaders => remote.ahead = 0 /\ remote.behind = 0
          /\ output # <<>>

\* C6 witness: a finished run with no stash log, no merge marker, no rebase
\* directory and no bracket in the header
C6_Witness ==
    /\ pc = "done"
    /\ files.stash = NoFile /\ files.merge = NoFile
    /\ files.next = NoFile /\ files.last = NoFile
    /\ lines[1] = PlainHeader
    /\ output # <<>>

\* C7: a run on an input with a fatal error (no .git entry, a pointer file
\* or head file that cannot be opened, a bracket with a keyword and no digit)
\* never finishes and never has a line; a failed run has no line either.
C7_FatalAborts ==
    /\ FatalInput => pc # "done" /\ output = <<>>
    /\ pc = "failed" =>
          /\ output = <<>>
          /\ err \in {"NotFound", "IOError", "ParseError"}
          /\ err = "NotFound" => NotFoundInput
          /\ err = "IOError" => IOErrorInput
          /\ err = "ParseError" => ParseErrorInput

\* C7 witness: the run on "## m...o/m [ahead]" failed with a parse error
C7_Witness ==
    /\ pc = "failed"
    /\ err = "ParseError"
    /\ lines[1] = Tracking(Main, OriginMain) \o Bracket(Ahead)

\* C8 as claimed: stash_count is the number of lines that are not empty
\* after trimming white space; a missing file gives 0.
C8_CountsTrimmedLines ==
    pc = "merge" =>
        stashes = to_string(IF files.stash.exists
                            THEN TrimmedLines(files.stash.data) ELSE 0)

\* C8 amended: stash_count is the number of lines that hold at least one
\* character, white space included (no trimming); a missing file gives 0.
C8_CountsNonEmptyLines ==
    pc = "merge" =>
        stashes = to_string(IF files.stash.exists
                            THEN NonEmptyLines(files.stash.data) ELSE 0)

\* C8 witness: three lines and a trailing blank line counted as 3
C8_Witness ==
    /\ pc = "merge"
    /\ files.stash.data = <<"x", "\n", "x", "\n", "x", "\n", "\n">>
    /\ stashes = <<"3">>

C10_ResolutionFinishes ==
    /\ <>(pc \in {"resolved", "failed"})
    /\ [](pc = "resolved" =>
            /\ Len(git_root) <= Len(tree_d)
            /\ SubSeq(tree_d, 1, Len(git_root)) = git_root
            /\ basename(git_root) = GitD)

====
